---- MODULE Spec2Model ----
(***************************************************************************)
(* SampledSubgraph.exclude_edges of dgl.graphbolt                          *)
(* (python/dgl/graphbolt/sampled_subgraph.py).                             *)
(*                                                                         *)
(* Data.  A tensor is a sequence.  A node id is a pair <<hi, lo>> of       *)
(* 32-bit limbs standing for the integer hi * 2^32 + lo, so that the       *)
(* 64-bit arithmetic of the key packing (x << 32 | y, modulo 2^64) is      *)
(* computed exactly on ids below and above 2^32.  A tensor of dtype int32  *)
(* holds only ids with hi = 0.  Positions, indptr entries and retain       *)
(* indices are 0-based naturals, as in the source; sequences are 1-based.  *)
(* An optional value is a record [some, val]; some = FALSE is None.        *)
(***************************************************************************)
EXTENDS Integers, Sequences, FiniteSets, TLC

(***************************************************************************)
(* Bounds of the checked input family.                                     *)
(***************************************************************************)
\* most sampled edges of a homogeneous CSC structure
MaxEdges == 3
\* most pairs of a homogeneous exclusion set
MaxExclude == 2
\* most sampled edges of one relation of a heterogeneous subgraph
MaxRelEdges == 2

\* the shift distance of the key packing, one limb
ShiftBits == 32

(***************************************************************************)
(* Ids and limbs.                                                          *)
(***************************************************************************)
Hi(x) == x[1]
Lo(x) == x[2]
Id(n) == <<0, n>>
\* 2^32, the least id that does not fit in 32 bits
Wide == <<1, 0>>

RECURSIVE BitOr(_, _)
\* bitwise or of two limbs
BitOr(a, b) ==
    IF a = 0 THEN b
    ELSE IF b = 0 THEN a
    ELSE (IF a % 2 = 1 \/ b % 2 = 1 THEN 1 ELSE 0) + 2 * BitOr(a \div 2, b \div 2)

\* x | y on 64-bit values
Or64(x, y) == <<BitOr(Hi(x), Hi(y)), BitOr(Lo(x), Lo(y))>>

\* mutant: the shift is left out
ShlForgotten(x, dtype, build) == x

\* x << ShiftBits on a tensor element of the given dtype (32 or 64 bits).
\* int64: the low limb moves to the high limb, the high limb is shifted out
\* (wraparound modulo 2^64).  int32: the shift distance equals the width, which
\* the C++ kernel behind the operator leaves undefined; builds give 0 (the
\* distance is checked) or x itself (the hardware masks the distance to 0).
Shl(x, dtype, build) ==
    IF ShiftBits < dtype THEN <<Lo(x), 0>>
    ELSE IF build = "zero" THEN Id(0)
    ELSE x

Range(s) == {s[i] : i \in DOMAIN s}

None == [some |-> FALSE, val |-> <<>>]
Some(v) == [some |-> TRUE, val |-> v]

(***************************************************************************)
(* Tensor operations used by the source.                                   *)
(***************************************************************************)
\* torch.index_select(t, dim=0, index=idx) and t[idx]: gather by 0-based position
Gather(t, idx) == [i \in 1..Len(idx) |-> t[idx[i] + 1]]

\* the 0-based positions held by a tensor of local ids
Positions(ids) == [i \in 1..Len(ids) |-> Lo(ids[i])]

\* the column owning edge position e (0-based): indptr[j] <= e < indptr[j+1]
ColumnOf(indptr, e) ==
    CHOOSE j \in 0..(Len(indptr) - 2) : indptr[j + 1] <= e /\ e < indptr[j + 2]

\* expand_indptr(indptr, dtype, node_ids, output_size): every edge gets the id of
\* its column, node_ids[j] when node_ids is given and j otherwise
expand_indptr(indptr, node_ids, output_size) ==
    [i \in 1..output_size |->
        LET j == ColumnOf(indptr, i - 1)
        IN  IF node_ids.some THEN node_ids.val[j + 1] ELSE Id(j)]

\* isin(elements, test_elements): the mask of the elements found in test_elements
isin(elements, test_elements) ==
    [i \in 1..Len(elements) |-> elements[i] \in Range(test_elements)]

RECURSIVE NonzeroFrom(_, _)
NonzeroFrom(mask, i) ==
    IF i > Len(mask) THEN <<>>
    ELSE IF mask[i] THEN <<i - 1>> \o NonzeroFrom(mask, i + 1)
    ELSE NonzeroFrom(mask, i + 1)

\* mutant: the first entry of the mask is not looked at
NonzeroSkipFirst(mask) == NonzeroFrom(mask, 2)

\* torch.nonzero(mask, as_tuple=True)[0]: the 0-based positions of the true
\* entries, ascending
Nonzero(mask) == NonzeroFrom(mask, 1)

\* mutant: the mask is not negated
InvertForgotten(mask) == mask

\* mutant: only the first true entry of the mask is negated, the later ones are
\* taken as false
InvertFirstOnly(mask) ==
    [i \in 1..Len(mask) |-> ~mask[i] \/ \E j \in 1..(i - 1) : mask[j]]

\* ~mask
Invert(mask) == [i \in 1..Len(mask) |-> ~mask[i]]

\* mutant: the boundary search taken with right=True (entries <= the value)
SearchsortedRight(sorted, values) ==
    [i \in 1..Len(values) |->
        Cardinality({k \in 1..Len(sorted) : sorted[k] <= values[i]})]

\* torch.searchsorted(sorted, values): for every value the first position whose
\* entry is >= the value, i.e. the number of entries < the value
Searchsorted(sorted, values) ==
    [i \in 1..Len(values) |->
        Cardinality({k \in 1..Len(sorted) : sorted[k] < values[i]})]

(***************************************************************************)
(* The module-level functions of sampled_subgraph.py.                      *)
(***************************************************************************)
\* mutant: the row map is not applied
to_reverse_ids_without_row_map(node_pair, original_row_node_ids, original_column_node_ids) ==
    LET indices == node_pair.indices
        indptr == expand_indptr(node_pair.indptr, original_column_node_ids, Len(indices))
    IN  <<indices, indptr>>

\* mutant: the two tensors are returned in each other's place
to_reverse_ids_swapped(node_pair, original_row_node_ids, original_column_node_ids) ==
    LET indices == IF original_row_node_ids.some
                   THEN Gather(original_row_node_ids.val, Positions(node_pair.indices))
                   ELSE node_pair.indices
        indptr == expand_indptr(node_pair.indptr, original_column_node_ids, Len(indices))
    IN  <<indptr, indices>>

\* _to_reverse_ids(node_pair, original_row_node_ids, original_column_node_ids):
\* the (source, destination) id of every sampled edge in original id space
to_reverse_ids(node_pair, original_row_node_ids, original_column_node_ids) ==
    LET indices == IF original_row_node_ids.some
                   THEN Gather(original_row_node_ids.val, Positions(node_pair.indices))
                   ELSE node_pair.indices
        indptr == expand_indptr(node_pair.indptr, original_column_node_ids, Len(indices))
    IN  <<indices, indptr>>

\* two one-dimensional tensors broadcast when their sizes are equal or one of
\* them has size 1
Broadcasts(lhs, rhs) == Len(lhs) = Len(rhs) \/ Len(lhs) = 1 \/ Len(rhs) = 1

\* the size of the broadcast of two tensors that broadcast
BroadcastLen(lhs, rhs) == IF Len(lhs) = 1 THEN Len(rhs) ELSE Len(lhs)

\* element i of a tensor expanded to a broadcast size
At(t, i) == IF Len(t) = 1 THEN t[1] ELSE t[i]

\* lhs << 32 | rhs, elementwise on two tensors of one dtype that broadcast
PackKeys(lhs, rhs, dtype, build) ==
    [i \in 1..BroadcastLen(lhs, rhs) |->
        Or64(Shl(At(lhs, i), dtype, build), At(rhs, i))]

\* the error of an elementwise operator on tensors that do not broadcast
ErrSize == "RuntimeError: The size of tensor a must match the size of tensor b"

\* the outcome of a function call: a returned value or a raised error
Return(v) == [raised |-> "", val |-> v]
Raise(e) == [raised |-> e, val |-> <<>>]

\* _exclude_homo_edges(edges, edges_to_exclude, assume_num_node_within_int32):
\* the positions of the edges to keep, the exclusion set given as a pair
\* (src tensor, dst tensor)
exclude_homo_edges(edges, edges_to_exclude, assume_num_node_within_int32, dtype, build) ==
    IF assume_num_node_within_int32
    THEN IF ~Broadcasts(edges_to_exclude[1], edges_to_exclude[2])
         THEN Raise(ErrSize)
         ELSE LET val == PackKeys(edges[1], edges[2], dtype, build)
                  val_to_exclude == PackKeys(edges_to_exclude[1], edges_to_exclude[2],
                                             dtype, build)
                  mask == Invert(isin(val, val_to_exclude))
              IN  Return(Nonzero(mask))
    ELSE Raise("NotImplementedError")

\* mutant: the rows of the transposed table are taken in the other order
TransposeSwapped(table) ==
    <<[i \in 1..Len(table) |-> table[i][2]], [i \in 1..Len(table) |-> table[i][1]]>>

\* edges_to_exclude.T of a two-column table: row 1 holds column 0 (src), row 2
\* holds column 1 (dst)
Transpose(table) ==
    <<[i \in 1..Len(table) |-> table[i][1]], [i \in 1..Len(table) |-> table[i][2]]>>

\* _exclude_homo_edges_2(edges, edges_to_exclude, assume_num_node_within_int32):
\* the exclusion set given as one two-column table
exclude_homo_edges_2(edges, edges_to_exclude, assume_num_node_within_int32, dtype, build) ==
    IF assume_num_node_within_int32
    THEN LET val == PackKeys(edges[1], edges[2], dtype, build)
             edges_to_exclude_trans == Transpose(edges_to_exclude)
             val_to_exclude == PackKeys(edges_to_exclude_trans[1],
                                        edges_to_exclude_trans[2], dtype, build)
             mask == Invert(isin(val, val_to_exclude))
         IN  Return(Nonzero(mask))
    ELSE Raise("NotImplementedError")

\* mutant: the indices are gathered but indptr is not recomputed
index_select_csc_stale_indptr(obj, index) ==
    IF ~index.some THEN obj
    ELSE [indptr |-> obj.indptr, indices |-> Gather(obj.indices, index.val)]

\* _index_select(obj, index) on a CSCFormatBase
index_select_csc(obj, index) ==
    IF ~index.some THEN obj
    ELSE [indptr |-> Searchsorted(index.val, obj.indptr),
          indices |-> Gather(obj.indices, index.val)]

\* mutant: the edge ids are cut to the new length instead of gathered
index_select_tensor_prefix(obj, index) ==
    IF ~index.some THEN obj ELSE SubSeq(obj, 1, Len(index.val))

\* _index_select(obj, index) on a tensor
index_select_tensor(obj, index) ==
    IF ~index.some THEN obj ELSE Gather(obj, index.val)

\* mutant: only the entries whose index is not None are put in the returned
\* dictionary
index_select_dict_sliced_only(obj, index, IsCsc) ==
    [k \in {r \in DOMAIN obj : index[r].some} |->
        IF IsCsc THEN index_select_csc(obj[k], index[k])
        ELSE index_select_tensor(obj[k], index[k])]

\* _index_select(obj, index) on a dictionary: every entry with the index of its key
index_select_dict(obj, index, IsCsc) ==
    [k \in DOMAIN obj |->
        IF IsCsc THEN index_select_csc(obj[k], index[k])
        ELSE index_select_tensor(obj[k], index[k])]

\* mutant: the two maps are returned in each other's place
slice_subgraph_swapped_maps(subgraph, index) ==
    IF subgraph.kind = "dict"
    THEN [csc |-> index_select_dict(subgraph.csc, index, TRUE),
          col |-> subgraph.row,
          row |-> subgraph.col,
          eid |-> IF subgraph.eid.some
                  THEN Some(index_select_dict(subgraph.eid.val, index, FALSE))
                  ELSE None]
    ELSE [csc |-> index_select_csc(subgraph.csc, index),
          col |-> subgraph.row,
          row |-> subgraph.col,
          eid |-> IF subgraph.eid.some
                  THEN Some(index_select_tensor(subgraph.eid.val, index))
                  ELSE None]

\* _slice_subgraph(subgraph, index): the constructor arguments of the result,
\* (sampled_csc, original_column_node_ids, original_row_node_ids,
\* original_edge_ids)
slice_subgraph(subgraph, index) ==
    IF subgraph.kind = "dict"
    THEN [csc |-> index_select_dict(subgraph.csc, index, TRUE),
          col |-> subgraph.col,
          row |-> subgraph.row,
          eid |-> IF subgraph.eid.some
                  THEN Some(index_select_dict(subgraph.eid.val, index, FALSE))
                  ELSE None]
    ELSE [csc |-> index_select_csc(subgraph.csc, index),
          col |-> subgraph.col,
          row |-> subgraph.row,
          eid |-> IF subgraph.eid.some
                  THEN Some(index_select_tensor(subgraph.eid.val, index))
                  ELSE None]

\* _index_select(obj, index) returns obj itself, not a copy, when index is None
index_select_same_object(index) == ~index.some

\* the structures of the result of _slice_subgraph(subgraph, index) that are the
\* same objects as the structures of the input, named by field and relation key
\* ("" for the single structure of a homogeneous subgraph)
slice_subgraph_same_objects(subgraph, index) ==
    IF subgraph.kind = "dict"
    THEN {<<"sampled_csc", k>> :
             k \in {r \in DOMAIN subgraph.csc : index_select_same_object(index[r])}}
         \cup (IF subgraph.eid.some
               THEN {<<"original_edge_ids", k>> :
                        k \in {r \in DOMAIN subgraph.eid.val :
                                  index_select_same_object(index[r])}}
               ELSE {})
    ELSE IF index_select_same_object(index)
         THEN {<<"sampled_csc", "">>}
              \cup (IF subgraph.eid.some THEN {<<"original_edge_ids", "">>} ELSE {})
         ELSE {}

\* the relation keys of the model and their parts
EtypeParts ==
    "A:r:B" :> <<"A", "r", "B">> @@ "B:s:A" :> <<"B", "s", "A">>
    @@ "A:t:A" :> <<"A", "t", "A">> @@ "A:relation:B" :> <<"A", "relation", "B">>

\* etype_str_to_tuple(etype): "src:relation:dst" split at the colons
etype_str_to_tuple(etype) == EtypeParts[etype]

\* d.get(k) of a dictionary
DictGet(d, k) == IF k \in DOMAIN d THEN Some(d[k]) ELSE None

\* mutant: the subgraph side of the check accepts a CSCFormatBase only
IsHomoSubgraphCscOnly(subgraph) == subgraph.kind = "csc"

\* isinstance(self.sampled_csc, (CSCFormatBase, tuple))
IsHomoSubgraph(subgraph) == subgraph.kind \in {"csc", "tuple"}

\* isinstance(edges, (tuple, torch.Tensor))
IsHomoEdges(e) == e.kind \in {"pair", "table"}

\* the homogeneous branch of exclude_edges up to the retain index
HomoIndex(subgraph, e, assume_num_node_within_int32, build) ==
    LET reverse_edges == to_reverse_ids(subgraph.csc, subgraph.row, subgraph.col)
    IN  IF e.kind = "table"
        THEN exclude_homo_edges_2(reverse_edges, e.val, assume_num_node_within_int32,
                                  subgraph.dtype, build)
        ELSE exclude_homo_edges(reverse_edges, e.val, assume_num_node_within_int32,
                                subgraph.dtype, build)

\* mutant: once a relation was given None, every later relation is given None
IndexUpdateSticky(idx, etype, val) ==
    (etype :> (IF \E k \in DOMAIN idx : ~idx[k].some THEN None ELSE val)) @@ idx

\* index[etype] = val on the dictionary of retain indices
IndexUpdate(idx, etype, val) == (etype :> val) @@ idx

\* mutant: a relation without an entry in the exclusion mapping keeps no edge
RelationIndexAbsentDropsAll(subgraph, e, etype, assume_num_node_within_int32, build) ==
    IF etype \notin DOMAIN e.val
    THEN Return(Some(<<>>))
    ELSE LET parts == etype_str_to_tuple(etype)
             rows == IF ~subgraph.row.some THEN None
                     ELSE DictGet(subgraph.row.val, parts[1])
             cols == IF ~subgraph.col.some THEN None
                     ELSE DictGet(subgraph.col.val, parts[3])
             reverse_edges == to_reverse_ids(subgraph.csc[etype], rows, cols)
             out == IF e.val[etype].kind = "table"
                    THEN exclude_homo_edges_2(reverse_edges, e.val[etype].val,
                                              assume_num_node_within_int32,
                                              subgraph.dtype, build)
                    ELSE exclude_homo_edges(reverse_edges, e.val[etype].val,
                                            assume_num_node_within_int32,
                                            subgraph.dtype, build)
         IN  IF out.raised = "" THEN Return(Some(out.val)) ELSE out

\* mutant: every relation is filtered with the pairs of all entries of the
\* exclusion mapping, not only its own
RelationIndexAllEntries(subgraph, e, etype, assume_num_node_within_int32, build) ==
    IF etype \notin DOMAIN e.val
    THEN Return(None)
    ELSE LET parts == etype_str_to_tuple(etype)
             rows == IF ~subgraph.row.some THEN None
                     ELSE DictGet(subgraph.row.val, parts[1])
             cols == IF ~subgraph.col.some THEN None
                     ELSE DictGet(subgraph.col.val, parts[3])
             reverse_edges == to_reverse_ids(subgraph.csc[etype], rows, cols)
             val == PackKeys(reverse_edges[1], reverse_edges[2], subgraph.dtype, build)
             all == UNION {IF e.val[k].kind = "table" THEN Range(e.val[k].val)
                           ELSE {<<e.val[k].val[1][i], e.val[k].val[2][i]>> :
                                    i \in DOMAIN e.val[k].val[1]
                                          \cap DOMAIN e.val[k].val[2]}
                           : k \in DOMAIN e.val}
             keys == {Or64(Shl(p[1], subgraph.dtype, build), p[2]) : p \in all}
         IN  Return(Some(Nonzero([i \in 1..Len(val) |-> val[i] \notin keys])))

\* mutant: the row map is looked up with the destination node type and the
\* column map with the source node type
RelationIndexSwappedTypes(subgraph, e, etype, assume_num_node_within_int32, build) ==
    IF etype \notin DOMAIN e.val
    THEN Return(None)
    ELSE LET parts == etype_str_to_tuple(etype)
             src_type == parts[3]
             dst_type == parts[1]
             original_row_node_ids ==
                 IF ~subgraph.row.some THEN None ELSE DictGet(subgraph.row.val, src_type)
             original_column_node_ids ==
                 IF ~subgraph.col.some THEN None ELSE DictGet(subgraph.col.val, dst_type)
             reverse_edges == to_reverse_ids(subgraph.csc[etype], original_row_node_ids,
                                             original_column_node_ids)
             out == IF e.val[etype].kind = "table"
                    THEN exclude_homo_edges_2(reverse_edges, e.val[etype].val,
                                              assume_num_node_within_int32,
                                              subgraph.dtype, build)
                    ELSE exclude_homo_edges(reverse_edges, e.val[etype].val,
                                            assume_num_node_within_int32,
                                            subgraph.dtype, build)
         IN  IF out.raised = "" THEN Return(Some(out.val)) ELSE out

\* one iteration of the loop over self.sampled_csc.items(): the retain index of
\* relation etype, None when the exclusion mapping has no entry for it
RelationIndex(subgraph, e, etype, assume_num_node_within_int32, build) ==
    IF etype \notin DOMAIN e.val
    THEN Return(None)
    ELSE LET parts == etype_str_to_tuple(etype)
             src_type == parts[1]
             dst_type == parts[3]
             original_row_node_ids ==
                 IF ~subgraph.row.some THEN None ELSE DictGet(subgraph.row.val, src_type)
             original_column_node_ids ==
                 IF ~subgraph.col.some THEN None ELSE DictGet(subgraph.col.val, dst_type)
             reverse_edges == to_reverse_ids(subgraph.csc[etype], original_row_node_ids,
                                             original_column_node_ids)
             out == IF e.val[etype].kind = "table"
                    THEN exclude_homo_edges_2(reverse_edges, e.val[etype].val,
                                              assume_num_node_within_int32,
                                              subgraph.dtype, build)
                    ELSE exclude_homo_edges(reverse_edges, e.val[etype].val,
                                            assume_num_node_within_int32,
                                            subgraph.dtype, build)
         IN  IF out.raised = "" THEN Return(Some(out.val)) ELSE out

(***************************************************************************)
(* The input family.                                                       *)
(***************************************************************************)
\* integer widths of the id tensors of one call
Dtypes == {32, 64}

\* what a build computes for a shift by the full width of an int32 element
Builds == {"zero", "same"}

\* original ids below 2^32 used by the exclusion pairs
Ids == {Id(0), Id(1)}

\* numbers of columns of a homogeneous CSC structure
ColCounts == {1, 2}

\* sequences over S of length 0..n
SeqUpTo(S, n) == UNION {[1..k -> S] : k \in 0..n}

IsSorted(s) == \A i \in 1..(Len(s) - 1) : s[i] <= s[i + 1]

\* CSC structures with ncols columns and at most nmax edges, rows from rowIds
CSCs(ncols, nmax, rowIds) ==
    UNION {
        {[indptr |-> <<0>> \o p, indices |-> ix] :
            p \in {q \in [1..ncols -> 0..n] : IsSorted(q) /\ q[ncols] = n},
            ix \in [1..n -> rowIds]}
        : n \in 0..nmax}

\* rows of a homogeneous structure: local ids 0 and 1, which are also original
\* ids when there is no row map
RowIds == {Id(0), Id(1)}

\* row maps of the two local rows
RowMaps == {None, Some(<<Id(1), Id(0)>>)}

\* column maps of ncols columns
ColMaps(ncols) == {None, Some([j \in 1..ncols |-> Id(ncols - j)])}

\* original edge ids of n sampled edges
EdgeIds(n) == {None, Some([i \in 1..n |-> 18 + i])}

\* homogeneous subgraphs of one dtype, every id below 2^32
HomoSubgraphs(dt) ==
    UNION {
        {[kind |-> "csc", dtype |-> dt, csc |-> c, row |-> r, col |-> cm, eid |-> e] :
            r \in RowMaps, cm \in ColMaps(Len(c.indptr) - 1),
            e \in EdgeIds(Len(c.indices))}
        : c \in UNION {CSCs(nc, MaxEdges, RowIds) : nc \in ColCounts}}

\* homogeneous int64 subgraphs that may hold the id 2^32 in the row map
WideSubgraphs ==
    UNION {
        {[kind |-> "csc", dtype |-> 64, csc |-> c, row |-> r, col |-> None, eid |-> None] :
            r \in {None, Some(<<Wide, Id(1)>>)}}
        : c \in UNION {CSCs(nc, MaxRelEdges, RowIds) : nc \in ColCounts}}

\* exclusion pairs (src, dst) in original id space, below 2^32
ExcludePairs == Ids \X Ids

\* exclusion pairs of int64 tensors with ids of 2^32
WidePairs == ExcludePairs \cup {<<Wide, Id(0)>>, <<Id(0), Wide>>}

PairOf(rows) == [kind |-> "pair", val |-> Transpose(rows)]
TableOf(rows) == [kind |-> "table", val |-> rows]

\* homogeneous exclusion sets of at most n pairs: a pair of tensors or one
\* two-column table
HomoEdges(pairs, n) ==
    {PairOf(rows) : rows \in SeqUpTo(pairs, n)}
    \cup {TableOf(rows) : rows \in SeqUpTo(pairs, n)}

R1 == "A:r:B"
R2 == "B:s:A"
\* a relation key no subgraph of the family has
R3 == "A:t:A"

\* per-node-type row maps (two local rows per relation)
HeteroRowMaps ==
    {None,
     Some("A" :> <<Id(1), Id(0)>>),
     Some("A" :> <<Id(1), Id(0)>> @@ "B" :> <<Id(1), Wide>>)}

\* per-node-type column maps (one column per relation)
HeteroColMaps == {None, Some("B" :> <<Id(1)>>)}

\* edge-id mappings: absent, for every relation, or for the first relation only
HeteroEdgeIds(csc, order) ==
    {None,
     Some([k \in DOMAIN csc |-> [i \in 1..Len(csc[k].indices) |-> 18 + i]]),
     Some(order[1] :> [i \in 1..Len(csc[order[1]].indices) |-> 28 + i])}

\* heterogeneous subgraphs: R1 alone, or R1 and R2 in either dictionary order
HeteroSubgraphs ==
    UNION { UNION {
        {[kind |-> "dict", dtype |-> 64, csc |-> c, order |-> o,
          row |-> r, col |-> cm, eid |-> e] :
            r \in HeteroRowMaps, cm \in HeteroColMaps, e \in HeteroEdgeIds(c, o)}
        : c \in IF Len(o) = 1
                THEN {R1 :> c1 : c1 \in CSCs(1, MaxRelEdges, RowIds)}
                ELSE {R1 :> c1 @@ R2 :> c2 :
                         c1 \in CSCs(1, MaxRelEdges, RowIds), c2 \in CSCs(1, 1, {Id(0)})}}
        : o \in {<<R1>>, <<R1, R2>>, <<R2, R1>>}}

\* the entries of a mapping, absent included
Entries(S) == {None} \cup {Some(x) : x \in S}

\* the dictionary with the present entries among k1, k2, k3
DictOf(e1, e2, e3) ==
    [k \in {R1 : x \in {1} \cap (IF e1.some THEN {1} ELSE {})}
           \cup {R2 : x \in {1} \cap (IF e2.some THEN {1} ELSE {})}
           \cup {R3 : x \in {1} \cap (IF e3.some THEN {1} ELSE {})}
        |-> IF k = R1 THEN e1.val ELSE IF k = R2 THEN e2.val ELSE e3.val]

\* heterogeneous exclusion mappings: per relation no entry, a pair or a table
HeteroEdges ==
    {[kind |-> "dict", val |-> DictOf(e1, e2, e3)] :
        e1 \in Entries(HomoEdges(ExcludePairs, 1)),
        e2 \in Entries({PairOf(<<>>), PairOf(<<<<Id(0), Id(0)>>>>),
                        TableOf(<<<<Id(0), Id(1)>>>>)}),
        e3 \in Entries({PairOf(<<<<Id(0), Id(0)>>>>)})}

\* the example of the docstring of exclude_edges: three columns of one edge
\* each, int64 tensors (the default of torch.tensor)
RDoc == "A:relation:B"
DocCsc == [indptr |-> <<0, 1, 2, 3>>, indices |-> <<Id(0), Id(1), Id(2)>>]
DocRows == <<Id(13), Id(14), Id(15)>>
DocCols == <<Id(10), Id(11), Id(12)>>
DocEdgeIds == <<19, 20, 21>>
DocPairs == {<<Id(14), Id(11)>>, <<Id(15), Id(12)>>}

\* the example as a homogeneous subgraph
DocHomoSubgraph ==
    [kind |-> "csc", dtype |-> 64, csc |-> DocCsc, row |-> Some(DocRows),
     col |-> Some(DocCols), eid |-> Some(DocEdgeIds)]

\* the example as written: the single relation "A:relation:B"
DocHeteroSubgraph ==
    [kind |-> "dict", dtype |-> 64, csc |-> RDoc :> DocCsc, order |-> <<RDoc>>,
     row |-> Some("A" :> DocRows), col |-> Some("B" :> DocCols),
     eid |-> Some(RDoc :> DocEdgeIds)]

\* exclusion sets over the pairs of the example, either form
DocHomoEdges == HomoEdges(DocPairs, Cardinality(DocPairs))
DocHeteroEdges == {[kind |-> "dict", val |-> RDoc :> e] : e \in DocHomoEdges}

\* malformed homogeneous exclusion sets: a pair (src, dst) of tensors of
\* different lengths
RaggedPairs ==
    {[kind |-> "pair", val |-> sd] :
        sd \in {p \in SeqUpTo(Ids, MaxExclude) \X SeqUpTo(Ids, MaxExclude) :
                   Len(p[1]) # Len(p[2])}}

\* homogeneous subgraphs the malformed exclusion sets are applied to
RaggedSubgraphs ==
    UNION {
        {[kind |-> "csc", dtype |-> 64, csc |-> c, row |-> None, col |-> None, eid |-> e] :
            e \in EdgeIds(Len(c.indices))}
        : c \in {x \in CSCs(1, MaxRelEdges, RowIds) : x.indices # <<>>}}

\* heterogeneous subgraphs of two relations, without maps and edge ids
RaggedHeteroSubgraphs ==
    {g \in HeteroSubgraphs :
        Len(g.order) = 2 /\ ~g.row.some /\ ~g.col.some /\ ~g.eid.some
        /\ Len(g.csc[R1].indices) <= 1}

\* exclusion mappings whose entry for R2 is malformed
RaggedHeteroEdges ==
    {[kind |-> "dict", val |-> DictOf(e1, Some(e2), None)] :
        e1 \in Entries({PairOf(<<<<Id(0), Id(0)>>>>)}), e2 \in RaggedPairs}

\* small inputs for the calls that the two assertions decide
SmallHomoSubgraphs ==
    {[kind |-> kd, dtype |-> 64, csc |-> c, row |-> None, col |-> None, eid |-> None] :
        kd \in {"csc", "tuple"}, c \in CSCs(1, 1, RowIds)}

SmallHeteroSubgraphs ==
    {g \in HeteroSubgraphs :
        g.order = <<R1>> /\ ~g.row.some /\ ~g.col.some /\ ~g.eid.some
        /\ Len(g.csc[R1].indices) <= 1}

SmallHomoEdges == HomoEdges(WidePairs, 1)

SmallHeteroEdges ==
    {e \in HeteroEdges : R2 \notin DOMAIN e.val /\ R3 \notin DOMAIN e.val}

(***************************************************************************)
(* The state: one call exclude_edges(sg, edges, flag) and how far it got.  *)
(***************************************************************************)
VARIABLES
    sg,      \* self, the sampled subgraph
    edges,   \* the edges to exclude
    flag,    \* assume_num_node_within_int32
    build,   \* what this build computes for an int32 shift by 32
    pc,      \* "call", "dispatch", "loop", "returned" or "raised"
    todo,    \* the relations the loop over sampled_csc.items() has not reached
    index,   \* the retain index: of the structure, or per relation visited
    result,  \* the returned subgraph, None until the call returns
    err,     \* the error raised, "" while there is none
    work     \* the steps done so far among "resolve", "exclude", "slice"

vars == <<sg, edges, flag, build, pc, todo, index, result, err, work>>

Start(g, e, f, b) ==
    /\ sg = g
    /\ edges = e
    /\ flag = f
    /\ build = b
    /\ pc = "call"
    /\ todo = <<>>
    /\ index = <<>>
    /\ result = None
    /\ err = ""
    /\ work = {}

\* The build matters only to int32 tensors; one build stands for all with int64.
BuildsFor(dtype) == IF dtype = 32 THEN Builds ELSE {"zero"}

Init ==
    \/ \E g \in HomoSubgraphs(64), e \in HomoEdges(ExcludePairs, MaxExclude) :
          Start(g, e, TRUE, "zero")
    \/ \E g \in HomoSubgraphs(32), e \in HomoEdges(ExcludePairs, 1), b \in BuildsFor(32) :
          Start(g, e, TRUE, b)
    \/ \E g \in WideSubgraphs, e \in HomoEdges(WidePairs, 1) : Start(g, e, TRUE, "zero")
    \/ \E g \in HeteroSubgraphs, e \in HeteroEdges : Start(g, e, TRUE, "zero")
    \/ \E e \in DocHomoEdges : Start(DocHomoSubgraph, e, TRUE, "zero")
    \/ \E e \in DocHeteroEdges : Start(DocHeteroSubgraph, e, TRUE, "zero")
    \/ \E g \in RaggedSubgraphs, e \in RaggedPairs : Start(g, e, TRUE, "zero")
    \/ \E g \in RaggedHeteroSubgraphs, e \in RaggedHeteroEdges : Start(g, e, TRUE, "zero")
    \/ \E g \in SmallHeteroSubgraphs, e \in RaggedHeteroEdges : Start(g, e, TRUE, "zero")
    \/ \E g \in SmallHomoSubgraphs, e \in SmallHomoEdges, f \in BOOLEAN :
          Start(g, e, f, "zero")
    \/ \E g \in SmallHomoSubgraphs, e \in SmallHeteroEdges, f \in BOOLEAN :
          Start(g, e, f, "zero")
    \/ \E g \in SmallHeteroSubgraphs, e \in SmallHomoEdges, f \in BOOLEAN :
          Start(g, e, f, "zero")
    \/ \E g \in SmallHeteroSubgraphs, e \in SmallHeteroEdges, f \in BOOLEAN :
          Start(g, e, f, "zero")

(***************************************************************************)
(* exclude_edges, step by step.                                            *)
(***************************************************************************)
\* mutant: the homogeneous branch slices self in place and returns it
HomoPathInPlace ==
    /\ pc = "dispatch"
    /\ sg.kind = "csc"
    /\ LET out == HomoIndex(sg, edges, flag, build)
       IN  IF out.raised = ""
           THEN /\ index' = Some(out.val)
                /\ result' = Some(slice_subgraph(sg, Some(out.val)))
                /\ sg' = [sg EXCEPT !.csc = index_select_csc(sg.csc, Some(out.val))]
                /\ pc' = "returned"
                /\ err' = err
                /\ work' = {"resolve", "exclude", "slice"}
           ELSE /\ pc' = "raised"
                /\ err' = out.raised
                /\ work' = {"resolve"}
                /\ UNCHANGED <<index, result, sg>>
    /\ UNCHANGED <<edges, flag, build, todo>>

\* mutant: the assertion on assume_num_node_within_int32 is left out
AssertionsWithoutFlag ==
    /\ pc = "call"
    /\ \/ /\ IsHomoSubgraph(sg) # IsHomoEdges(edges)
          /\ pc' = "raised"
          /\ err' = "AssertionError: both homogeneous or both heterogeneous"
       \/ /\ IsHomoSubgraph(sg) = IsHomoEdges(edges)
          /\ pc' = "dispatch"
          /\ err' = err
    /\ UNCHANGED <<sg, edges, flag, build, todo, index, result, work>>

\* the two assertions at the head of exclude_edges
Assertions ==
    /\ pc = "call"
    /\ \/ /\ ~flag
          /\ pc' = "raised"
          /\ err' = "AssertionError: Values > int32 are not supported yet."
       \/ /\ flag
          /\ IsHomoSubgraph(sg) # IsHomoEdges(edges)
          /\ pc' = "raised"
          /\ err' = "AssertionError: both homogeneous or both heterogeneous"
       \/ /\ flag
          /\ IsHomoSubgraph(sg) = IsHomoEdges(edges)
          /\ pc' = "dispatch"
          /\ err' = err
    /\ UNCHANGED <<sg, edges, flag, build, todo, index, result, work>>

\* the branch isinstance(self.sampled_csc, CSCFormatBase): resolve the original
\* ids, exclude, slice and construct the result
HomoPath ==
    /\ pc = "dispatch"
    /\ sg.kind = "csc"
    /\ LET out == HomoIndex(sg, edges, flag, build)
       IN  IF out.raised = ""
           THEN /\ index' = Some(out.val)
                /\ result' = Some(slice_subgraph(sg, Some(out.val)))
                /\ pc' = "returned"
                /\ err' = err
                /\ work' = {"resolve", "exclude", "slice"}
           ELSE /\ pc' = "raised"
                /\ err' = out.raised
                /\ work' = {"resolve"}
                /\ UNCHANGED <<index, result>>
    /\ UNCHANGED <<sg, edges, flag, build, todo>>

\* mutant: a key of the exclusion mapping that the subgraph does not have is
\* rejected
EnterLoopRejectUnknown ==
    /\ pc = "dispatch"
    /\ sg.kind # "csc"
    /\ \/ /\ sg.kind = "tuple"
          /\ pc' = "raised"
          /\ err' = "AttributeError: 'tuple' object has no attribute 'items'"
          /\ UNCHANGED todo
       \/ /\ sg.kind = "dict"
          /\ ~(DOMAIN edges.val \subseteq DOMAIN sg.csc)
          /\ pc' = "raised"
          /\ err' = "KeyError"
          /\ UNCHANGED todo
       \/ /\ sg.kind = "dict"
          /\ DOMAIN edges.val \subseteq DOMAIN sg.csc
          /\ pc' = "loop"
          /\ todo' = sg.order
          /\ err' = err
    /\ index' = <<>>
    /\ UNCHANGED <<sg, edges, flag, build, result, work>>

\* the else branch: index = {} and the loop over self.sampled_csc.items(), which
\* a plain tuple does not have
EnterLoop ==
    /\ pc = "dispatch"
    /\ sg.kind # "csc"
    /\ \/ /\ sg.kind = "tuple"
          /\ pc' = "raised"
          /\ err' = "AttributeError: 'tuple' object has no attribute 'items'"
          /\ UNCHANGED todo
       \/ /\ sg.kind = "dict"
          /\ pc' = "loop"
          /\ todo' = sg.order
          /\ err' = err
    /\ index' = <<>>
    /\ UNCHANGED <<sg, edges, flag, build, result, work>>

\* mutant: a relation whose exclusion fails is passed through and the loop goes on
LoopIterationSkipFailed ==
    /\ pc = "loop"
    /\ todo # <<>>
    /\ LET etype == Head(todo)
           out == RelationIndex(sg, edges, etype, flag, build)
       IN  /\ index' = IndexUpdate(index, etype, IF out.raised = "" THEN out.val ELSE None)
           /\ todo' = Tail(todo)
           /\ work' = work \cup {"resolve"}
           /\ UNCHANGED <<pc, err>>
    /\ UNCHANGED <<sg, edges, flag, build, result>>

\* one iteration of the loop, for the next relation in dictionary order
LoopIteration ==
    /\ pc = "loop"
    /\ todo # <<>>
    /\ LET etype == Head(todo)
           out == RelationIndex(sg, edges, etype, flag, build)
       IN  IF out.raised = ""
           THEN /\ index' = IndexUpdate(index, etype, out.val)
                /\ todo' = Tail(todo)
                /\ work' = IF out.val.some THEN work \cup {"resolve", "exclude"} ELSE work
                /\ UNCHANGED <<pc, err>>
           ELSE /\ pc' = "raised"
                /\ err' = out.raised
                /\ work' = work \cup {"resolve"}
                /\ UNCHANGED <<index, todo>>
    /\ UNCHANGED <<sg, edges, flag, build, result>>

\* after the loop: slice with the per-relation indices and construct the result
HeteroReturn ==
    /\ pc = "loop"
    /\ todo = <<>>
    /\ result' = Some(slice_subgraph(sg, index))
    /\ pc' = "returned"
    /\ work' = work \cup {"slice"}
    /\ UNCHANGED <<sg, edges, flag, build, todo, index, err>>

Next ==
    \/ Assertions
    \/ HomoPath
    \/ EnterLoop
    \/ LoopIteration
    \/ HeteroReturn

Spec == Init /\ [][Next]_vars

(***************************************************************************)
(* Vocabulary of the properties.                                           *)
(***************************************************************************)
Returned == pc = "returned"
Raised == pc = "raised"
Finished == Returned \/ Raised
Res == result.val

ErrUnsupported == "AssertionError: Values > int32 are not supported yet."
ErrShape == "AssertionError: both homogeneous or both heterogeneous"

\* the original (src, dst) pair of the edge at 1-based position i of a structure,
\* read through the optional row and column maps
OrigPair(c, row, col, i) ==
    LET j == CHOOSE k \in 1..(Len(c.indptr) - 1) : c.indptr[k] < i /\ i <= c.indptr[k + 1]
    IN  <<IF row.some THEN row.val[Lo(c.indices[i]) + 1] ELSE c.indices[i],
          IF col.some THEN col.val[j] ELSE Id(j - 1)>>

\* the original pairs of all edges of a structure, in the order of indices
OrigPairs(c, row, col) == [i \in 1..Len(c.indices) |-> OrigPair(c, row, col, i)]

\* a pair of tensors of one length, or a table
EqualLengths(e) == e.kind = "pair" => Len(e.val[1]) = Len(e.val[2])

\* the exclusion set of a pair or table, as a set of (src, dst) pairs
ExclSet(e) ==
    IF e.kind = "pair"
    THEN {<<e.val[1][i], e.val[2][i]>> : i \in DOMAIN e.val[1] \cap DOMAIN e.val[2]}
    ELSE Range(e.val)

RECURSIVE Filter(_, _)
\* the subsequence of s of the entries outside the set drop
Filter(s, drop) ==
    IF s = <<>> THEN <<>>
    ELSE IF Head(s) \in drop THEN Filter(Tail(s), drop)
    ELSE <<Head(s)>> \o Filter(Tail(s), drop)

Narrow(x) == Hi(x) = 0

\* every id of a homogeneous call lies in [0, 2^32)
AllNarrow ==
    /\ \A i \in DOMAIN sg.csc.indices : Narrow(sg.csc.indices[i])
    /\ sg.row.some => \A i \in DOMAIN sg.row.val : Narrow(sg.row.val[i])
    /\ sg.col.some => \A i \in DOMAIN sg.col.val : Narrow(sg.col.val[i])
    /\ \A p \in ExclSet(edges) : Narrow(p[1]) /\ Narrow(p[2])

HomoReturned == Returned /\ sg.kind = "csc"
HeteroReturned == Returned /\ sg.kind = "dict"

(***************************************************************************)
(* C1.  Exact removal: for a homogeneous subgraph whose ids all lie in     *)
(* [0, 2^32), the edges of the result, read back in original-id space, are *)
(* exactly the edges of the input whose original (src, dst) pair is not in *)
(* the exclusion set, in the same relative order.                          *)
(***************************************************************************)
C1_ExactRemoval ==
    (HomoReturned /\ AllNarrow /\ EqualLengths(edges)) =>
        OrigPairs(Res.csc, Res.row, Res.col)
            = Filter(OrigPairs(sg.csc, sg.row, sg.col), ExclSet(edges))

\* the CSC validity of a result structure against the input structure
ValidCsc(new, old) ==
    /\ Len(new.indptr) = Len(old.indptr)
    /\ new.indptr[1] = 0
    /\ new.indptr[Len(new.indptr)] = Len(new.indices)
    /\ IsSorted(new.indptr)

(***************************************************************************)
(* C2.  CSC validity: each CSC structure of a result has a non-decreasing  *)
(* indptr that starts at 0 and ends at the number of its indices, and as   *)
(* many columns as the input structure, also when columns lose all edges.  *)
(***************************************************************************)
C2_CscValidity ==
    /\ HomoReturned => ValidCsc(Res.csc, sg.csc)
    /\ HeteroReturned =>
          /\ DOMAIN Res.csc = DOMAIN sg.csc
          /\ \A k \in DOMAIN sg.csc : ValidCsc(Res.csc[k], sg.csc[k])

\* a result in which a column that had edges has none left
C2_Witness ==
    /\ HomoReturned
    /\ Len(Res.csc.indices) > 0
    /\ \E j \in 1..(Len(sg.csc.indptr) - 1) :
          /\ sg.csc.indptr[j] < sg.csc.indptr[j + 1]
          /\ Res.csc.indptr[j] = Res.csc.indptr[j + 1]

\* the entries of a structure's column j (1-based), in order
ColumnSlice(c, j) == SubSeq(c.indices, c.indptr[j] + 1, c.indptr[j + 1])

\* the entries of column j at the retained positions, in order
RetainedSlice(c, retain, j) ==
    LET kept == {p \in Range(retain) : c.indptr[j] <= p /\ p < c.indptr[j + 1]}
        pos == [i \in 1..(c.indptr[j + 1] - c.indptr[j]) |-> c.indptr[j] + i - 1]
    IN  [i \in 1..Len(Filter(pos, Range(pos) \ kept)) |->
            c.indices[Filter(pos, Range(pos) \ kept)[i] + 1]]

\* column ownership of a sliced structure
OwnsColumns(new, old, retain) ==
    /\ \A j \in 1..Len(old.indptr) :
          new.indptr[j] = Cardinality({k \in 1..Len(retain) : retain[k] < old.indptr[j]})
    /\ \A j \in 1..(Len(old.indptr) - 1) :
          ColumnSlice(new, j) = RetainedSlice(old, retain, j)

(***************************************************************************)
(* C3.  Column ownership is preserved by slicing: for every column j the   *)
(* result slice equals the input slice restricted to the retained          *)
(* positions, in order, and new_indptr[j] is the number of retain-index    *)
(* entries below indptr[j].                                                *)
(***************************************************************************)
C3_ColumnOwnership ==
    /\ HomoReturned => OwnsColumns(Res.csc, sg.csc, index.val)
    /\ HeteroReturned =>
          \A k \in DOMAIN sg.csc :
              index[k].some => OwnsColumns(Res.csc[k], sg.csc[k], index[k].val)

\* a slicing that keeps an edge of the second column and drops one of the first
C3_Witness ==
    /\ HomoReturned
    /\ Len(sg.csc.indptr) = 3
    /\ Res.csc.indptr[2] < sg.csc.indptr[2]
    /\ Res.csc.indptr[3] > Res.csc.indptr[2]

\* the (column, row, edge id) triples of a structure with edge ids, in order
Triples(c, eid) ==
    [i \in 1..Len(c.indices) |->
        <<CHOOSE k \in 1..(Len(c.indptr) - 1) : c.indptr[k] < i /\ i <= c.indptr[k + 1],
          c.indices[i], eid[i]>>]

\* the edge ids of a result stay on their edges: the result's triples are the
\* input's triples of the surviving edge ids, in order
Aligned(new, newEid, old, oldEid) ==
    /\ Len(newEid) = Len(new.indices)
    /\ Triples(new, newEid)
          = Filter(Triples(old, oldEid),
                   {t \in Range(Triples(old, oldEid)) : t[3] \notin Range(newEid)})

(***************************************************************************)
(* C4.  Edge-id alignment: when the input has edge ids aligned with        *)
(* indices, the result's edge ids have the length of the result's indices  *)
(* and every surviving position carries the edge id the input gave to the  *)
(* edge now stored there.                                                  *)
(***************************************************************************)
C4_EdgeIdAlignment ==
    /\ (HomoReturned /\ sg.eid.some) =>
          /\ Res.eid.some
          /\ Aligned(Res.csc, Res.eid.val, sg.csc, sg.eid.val)
    /\ (HeteroReturned /\ sg.eid.some) =>
          /\ Res.eid.some
          /\ DOMAIN Res.eid.val = DOMAIN sg.eid.val
          /\ \A k \in DOMAIN sg.eid.val :
                Aligned(Res.csc[k], Res.eid.val[k], sg.csc[k], sg.eid.val[k])

\* a result with edge ids that lost its first edge and kept a later one
C4_Witness ==
    /\ HomoReturned
    /\ sg.eid.some
    /\ Len(Res.eid.val) > 0
    /\ Res.eid.val[1] # sg.eid.val[1]

\* an exclusion set is empty: no pair, no row, or a mapping whose entries are
\* all empty pairs or tables
EmptyEdges(e) ==
    IF e.kind = "dict"
    THEN \A k \in DOMAIN e.val : EqualLengths(e.val[k]) /\ ExclSet(e.val[k]) = {}
    ELSE EqualLengths(e) /\ ExclSet(e) = {}

(***************************************************************************)
(* C5.  Idempotence under empty exclusion: excluding the empty set (an     *)
(* empty pair or table for a homogeneous subgraph, an empty mapping or a   *)
(* mapping of empty entries for a heterogeneous one) returns a subgraph    *)
(* with the input's indptr, indices and edge ids.                          *)
(***************************************************************************)
C5_EmptyExclusion ==
    (flag /\ sg.kind # "tuple" /\ IsHomoSubgraph(sg) = IsHomoEdges(edges)
          /\ EmptyEdges(edges) /\ Finished) =>
        /\ Returned
        /\ Res.csc = sg.csc
        /\ Res.eid = sg.eid

\* empty exclusions that went through the exclusion engine: a homogeneous call
\* with edges and edge ids
C5_Witness ==
    /\ HomoReturned
    /\ EmptyEdges(edges)
    /\ sg.eid.some
    /\ Len(sg.csc.indices) >= 2
    /\ Res.csc = sg.csc

\* one side is a single structure, the other a per-relation mapping
ShapeMismatch == (sg.kind = "dict") # (edges.kind = "dict")

\* C6 as stated: every call with a homogeneity mismatch raises the shape-mismatch
\* error, does none of the three steps and returns no subgraph
C6_AsStated ==
    ShapeMismatch =>
        /\ pc \in {"call", "raised"}
        /\ work = {}
        /\ ~result.some
        /\ Raised => err = ErrShape

(***************************************************************************)
(* C6, amended.  With assume_within_32bit true, a homogeneity mismatch     *)
(* (single structure against per-relation mapping, either way round) is    *)
(* rejected before any work: the call raises the shape-mismatch error,     *)
(* does no id resolution, exclusion or slicing, and returns no subgraph.   *)
(* With the flag false the unsupported error of C7 is raised first.        *)
(***************************************************************************)
C6_MismatchRejected ==
    /\ (ShapeMismatch /\ flag) =>
          /\ pc \in {"call", "raised"}
          /\ work = {}
          /\ ~result.some
          /\ Raised => err = ErrShape
    /\ (ShapeMismatch /\ ~flag /\ Raised) => err = ErrUnsupported

\* a plain tuple against a per-relation mapping, rejected with the flag set
C6_Witness ==
    /\ ShapeMismatch
    /\ flag
    /\ sg.kind = "tuple"
    /\ Raised
    /\ err = ErrShape

(***************************************************************************)
(* C7.  Unsupported wide-range mode: every call with                       *)
(* assume_within_32bit = false fails with the unsupported error and        *)
(* returns no subgraph, whatever the subgraph and the exclusion set are.   *)
(***************************************************************************)
C7_UnsupportedMode ==
    ~flag =>
        /\ pc \in {"call", "raised"}
        /\ work = {}
        /\ ~result.some
        /\ Raised => err = ErrUnsupported

\* the flag false with an empty exclusion mapping on a heterogeneous subgraph
C7_Witness ==
    /\ ~flag
    /\ Raised
    /\ err = ErrUnsupported
    /\ sg.kind = "dict"
    /\ edges.kind = "dict"
    /\ DOMAIN edges.val = {}

\* the row and column maps a relation is read through
RelRow(g, k) == IF ~g.row.some THEN None ELSE DictGet(g.row.val, EtypeParts[k][1])
RelCol(g, k) == IF ~g.col.some THEN None ELSE DictGet(g.col.val, EtypeParts[k][3])

WidePair(p) == ~Narrow(p[1]) \/ ~Narrow(p[2])

\* some endpoint id of a sampled edge or of an exclusion pair is 2^32 or more
HasWideId ==
    \/ /\ sg.kind = "dict"
       /\ \E k \in DOMAIN sg.csc :
             \E p \in Range(OrigPairs(sg.csc[k], RelRow(sg, k), RelCol(sg, k))) : WidePair(p)
    \/ /\ sg.kind # "dict"
       /\ \E p \in Range(OrigPairs(sg.csc, sg.row, sg.col)) : WidePair(p)
    \/ /\ edges.kind = "dict"
       /\ \E k \in DOMAIN edges.val : \E p \in ExclSet(edges.val[k]) : WidePair(p)
    \/ /\ edges.kind # "dict"
       /\ \E p \in ExclSet(edges) : WidePair(p)

\* C8 as stated: a call with an id outside the 32-bit range (and nothing else
\* wrong with it) raises the unsupported error and returns no subgraph
C8_AsStated ==
    (HasWideId /\ Finished /\ ~ShapeMismatch /\ sg.kind # "tuple") =>
        (Raised /\ err = ErrUnsupported)

\* (s * 2^32 + d) with s * 2^32 and the or taken modulo 2^64
WrapKey(p) == <<BitOr(Lo(p[1]), Hi(p[2])), Lo(p[2])>>

(***************************************************************************)
(* C8, amended.  Ids outside the 32-bit range are not detected: a call     *)
(* holding such an id raises the unsupported error exactly when            *)
(* assume_within_32bit is false.  With the flag true the ids are packed    *)
(* unchecked into (s << 32 | d) modulo 2^64, and a sampled edge of a       *)
(* homogeneous subgraph is kept exactly when that key differs from the key *)
(* of every exclusion pair, so a pair with an id of 2^32 or more can stand *)
(* for a different pair.                                                   *)
(***************************************************************************)
C8_WideIdsUnchecked ==
    HasWideId =>
        /\ Finished => ((Raised /\ err = ErrUnsupported) <=> ~flag)
        /\ HomoReturned =>
              Range(index.val)
                  = {i - 1 : i \in {n \in 1..Len(sg.csc.indices) :
                        WrapKey(OrigPair(sg.csc, sg.row, sg.col, n))
                            \notin {WrapKey(p) : p \in ExclSet(edges)}}}

\* a returned call in which the pair (2^32, d) removed the sampled edge (0, d)
C8_Witness ==
    /\ HomoReturned
    /\ \E i \in 1..Len(sg.csc.indices) :
          LET p == OrigPair(sg.csc, sg.row, sg.col, i)
          IN  /\ p[1] = Id(0)
              /\ <<Wide, p[2]>> \in ExclSet(edges)
              /\ p \notin ExclSet(edges)
              /\ i - 1 \notin Range(index.val)

\* exclude_edges(g, e) of a heterogeneous subgraph as one value: the result of a
\* second call on the same subgraph
SecondCall(g, e) ==
    slice_subgraph(g, [k \in DOMAIN g.csc |-> RelationIndex(g, e, k, TRUE, build).val])

\* two exclusion mappings agree on relation k: the same entry, or both without
AgreeOn(e1, e2, k) ==
    /\ (k \in DOMAIN e1.val) = (k \in DOMAIN e2.val)
    /\ k \in DOMAIN e1.val =>
          /\ e1.val[k].kind = e2.val[k].kind
          /\ e1.val[k].val = e2.val[k].val

\* relation k of two results: the same structure and the same edge ids
SameRelation(r1, r2, k) ==
    /\ r1.csc[k] = r2.csc[k]
    /\ r1.eid.some = r2.eid.some
    /\ r1.eid.some =>
          /\ (k \in DOMAIN r1.eid.val) = (k \in DOMAIN r2.eid.val)
          /\ k \in DOMAIN r1.eid.val => r1.eid.val[k] = r2.eid.val[k]

(***************************************************************************)
(* C9.  Heterogeneous independence: two calls on one heterogeneous         *)
(* subgraph whose exclusion mappings agree on relation B (same entry, or   *)
(* both none) return the same indptr, indices and edge ids for B, however  *)
(* the mappings differ on other relations.                                 *)
(***************************************************************************)
C9_HeteroIndependence ==
    HeteroReturned =>
        \A k \in DOMAIN sg.csc : \A e2 \in HeteroEdges :
            AgreeOn(edges, e2, k) => SameRelation(Res, SecondCall(sg, e2), k)

\* two relations with edges, the first losing an edge to its own entry while the
\* second keeps its edge
C9_Witness ==
    /\ HeteroReturned
    /\ DOMAIN sg.csc = {R1, R2}
    /\ R1 \in DOMAIN edges.val
    /\ Len(Res.csc[R1].indices) < Len(sg.csc[R1].indices)
    /\ Len(Res.csc[R2].indices) > 0

(***************************************************************************)
(* C10.  Pass-through of untouched relations: for every relation key of a  *)
(* heterogeneous subgraph that the exclusion mapping has no entry for, the *)
(* retain index is None and the result's CSC structure and edge ids for    *)
(* the key are the input's.                                                *)
(***************************************************************************)
C10_PassThrough ==
    HeteroReturned =>
        \A k \in DOMAIN sg.csc \ DOMAIN edges.val :
            /\ index[k] = None
            /\ Res.csc[k] = sg.csc[k]
            /\ Res.eid.some = sg.eid.some
            /\ (sg.eid.some /\ k \in DOMAIN sg.eid.val) =>
                  (k \in DOMAIN Res.eid.val /\ Res.eid.val[k] = sg.eid.val[k])

\* a relation with edges and edge ids passes through while another relation
\* loses an edge
C10_Witness ==
    /\ HeteroReturned
    /\ DOMAIN sg.csc = {R1, R2}
    /\ R2 \notin DOMAIN edges.val
    /\ Len(sg.csc[R2].indices) > 0
    /\ sg.eid.some
    /\ R2 \in DOMAIN sg.eid.val
    /\ R1 \in DOMAIN edges.val
    /\ Len(Res.csc[R1].indices) < Len(sg.csc[R1].indices)

(***************************************************************************)
(* C11.  Inputs are never mutated: no step of exclude_edges, whether the   *)
(* call returns or raises, changes a field of the input subgraph or a      *)
(* sequence of the exclusion set.                                          *)
(***************************************************************************)
C11_InputsNotMutated == [][sg' = sg /\ edges' = edges]_vars

\* a returned call that removed an edge of a subgraph with maps and edge ids,
\* whose input still holds every edge
C11_Witness ==
    /\ HomoReturned
    /\ sg.row.some /\ sg.col.some /\ sg.eid.some
    /\ Len(Res.csc.indices) < Len(sg.csc.indices)
    /\ Len(sg.eid.val) = Len(sg.csc.indices)
    /\ ExclSet(edges) # {}

(***************************************************************************)
(* C12.  exclude_edges always returns new storage: no CSC structure and no *)
(* edge-id array of the returned subgraph is the same object as a          *)
(* structure of the input, also for relations passed through with a None   *)
(* retain index.                                                           *)
(***************************************************************************)
C12_NewStorage == Returned => slice_subgraph_same_objects(sg, index) = {}

(***************************************************************************)
(* C13.  Compaction maps are carried over untouched: the result's row and  *)
(* column maps are the input's, for every node type, whatever edges are    *)
(* removed, and the result's indices are local ids of the input structure  *)
(* (the id space of the input).                                            *)
(***************************************************************************)
C13_MapsCarriedOver ==
    Returned =>
        /\ Res.row = sg.row
        /\ Res.col = sg.col
        /\ sg.kind = "csc" => Range(Res.csc.indices) \subseteq Range(sg.csc.indices)
        /\ sg.kind = "dict" =>
              \A k \in DOMAIN sg.csc :
                  Range(Res.csc[k].indices) \subseteq Range(sg.csc[k].indices)

\* a compacted subgraph (both maps) that lost an edge and kept one
C13_Witness ==
    /\ HomoReturned
    /\ sg.row.some /\ sg.col.some
    /\ Len(Res.csc.indices) < Len(sg.csc.indices)
    /\ Len(Res.csc.indices) > 0
    /\ Res.row.some /\ Res.col.some

(***************************************************************************)
(* C14.  Exclusion is directional and matches on the whole pair: for a     *)
(* homogeneous subgraph and an exclusion set with ids in [0, 2^32), every  *)
(* sampled edge that the call removes has its own original (src, dst) pair *)
(* in the exclusion set; the reversed pair, or a pair sharing only one     *)
(* endpoint, does not remove it.                                           *)
(***************************************************************************)
C14_WholePair ==
    (HomoReturned /\ AllNarrow /\ EqualLengths(edges)) =>
        \A i \in 1..Len(sg.csc.indices) :
            (i - 1) \notin Range(index.val) =>
                OrigPair(sg.csc, sg.row, sg.col, i) \in ExclSet(edges)

\* no pair of an exclusion set is the original pair of a sampled edge
Unmatched(c, row, col, e) == ExclSet(e) \cap Range(OrigPairs(c, row, col)) = {}

(***************************************************************************)
(* C15.  Exclusion pairs that match no sampled edge are ignored: when no   *)
(* pair of the exclusion set (ids in [0, 2^32)) is the original pair of a  *)
(* sampled edge, the call raises no error and returns the input's indptr,  *)
(* indices and edge ids; per relation for a heterogeneous subgraph.        *)
(***************************************************************************)
C15_UnmatchedIgnored ==
    /\ (sg.kind = "csc" /\ edges.kind # "dict" /\ flag /\ Finished
           /\ AllNarrow /\ EqualLengths(edges)
           /\ Unmatched(sg.csc, sg.row, sg.col, edges)) =>
          /\ Returned
          /\ Res.csc = sg.csc
          /\ Res.eid = sg.eid
    /\ HeteroReturned =>
          \A k \in DOMAIN sg.csc \cap DOMAIN edges.val :
              (/\ EqualLengths(edges.val[k])
               /\ \A p \in ExclSet(edges.val[k]) : ~WidePair(p)
               /\ Unmatched(sg.csc[k], RelRow(sg, k), RelCol(sg, k), edges.val[k])) =>
                  /\ Res.csc[k] = sg.csc[k]
                  /\ (sg.eid.some /\ k \in DOMAIN sg.eid.val) =>
                        Res.eid.val[k] = sg.eid.val[k]

\* the result the docstring prints
DocResultCsc == [indptr |-> <<0, 1, 1, 1>>, indices |-> <<Id(0)>>]
DocResultEdgeIds == <<19>>

(***************************************************************************)
(* C16.  Documented example: for the CSC indptr=[0,1,2,3], indices=[0,1,2] *)
(* with row map [13,14,15], column map [10,11,12] and edge ids [19,20,21], *)
(* homogeneous or as the single relation "A:relation:B", excluding the     *)
(* pairs (14,11) and (15,12) yields indptr=[0,1,1,1], indices=[0], edge    *)
(* ids [19], and the row and column maps unchanged.                        *)
(***************************************************************************)
C16_DocumentedExample ==
    /\ (Finished /\ sg.kind = "csc" /\ edges.kind # "dict" /\ sg.csc = DocCsc
           /\ ExclSet(edges) = DocPairs) =>
          /\ Returned
          /\ Res.csc = DocResultCsc
          /\ Res.eid = Some(DocResultEdgeIds)
          /\ Res.row = Some(DocRows)
          /\ Res.col = Some(DocCols)
    /\ (Finished /\ sg.kind = "dict" /\ edges.kind = "dict" /\ DOMAIN sg.csc = {RDoc}
           /\ ExclSet(edges.val[RDoc]) = DocPairs) =>
          /\ Returned
          /\ Res.csc = (RDoc :> DocResultCsc)
          /\ Res.eid = Some(RDoc :> DocResultEdgeIds)
          /\ Res.row = Some("A" :> DocRows)
          /\ Res.col = Some("B" :> DocCols)

\* the example as written in the docstring has returned: the relation
\* "A:relation:B" with the pair of tensors ([14, 15], [11, 12])
C16_Witness ==
    /\ HeteroReturned
    /\ sg = DocHeteroSubgraph
    /\ edges.val[RDoc].kind = "pair"
    /\ edges.val[RDoc].val = <<<<Id(14), Id(15)>>, <<Id(11), Id(12)>>>>
    /\ Res.csc[RDoc] = DocResultCsc

\* the orders in which the relations of a set can be visited
Orders(S) == {o \in [1..Cardinality(S) -> S] : Range(o) = S}

RECURSIVE LoopFrom(_, _, _, _)
\* the dictionary of retain indices after the loop of exclude_edges has visited
\* the relations of order, starting from the dictionary idx
LoopFrom(g, e, order, idx) ==
    IF order = <<>> THEN idx
    ELSE LoopFrom(g, e, Tail(order),
                  IndexUpdate(idx, Head(order),
                              RelationIndex(g, e, Head(order), TRUE, build).val))

C18_NoPartialResult ==
    /\ result.some <=> Returned
    /\ Raised => err # ""
    /\ HomoReturned => HomoIndex(sg, edges, flag, build).raised = ""
    /\ HeteroReturned =>
          /\ DOMAIN index = DOMAIN sg.csc
          /\ DOMAIN Res.csc = DOMAIN sg.csc
          /\ \A k \in DOMAIN sg.csc : RelationIndex(sg, edges, k, flag, build).raised = ""

\* the exclusion of the second relation failed after the first relation got its
\* retain index
C18_Witness ==
    /\ Raised
    /\ sg.kind = "dict"
    /\ err = ErrSize
    /\ \E k \in DOMAIN index : index[k].some
    /\ ~result.some

\* a pair (src, dst) of tensors of different lengths, alone or as an entry
Malformed(e) ==
    IF e.kind = "dict"
    THEN \E k \in DOMAIN e.val : ~EqualLengths(e.val[k])
    ELSE ~EqualLengths(e)

(***************************************************************************)
(* C19.  Malformed input fails fast: a call whose exclusion set has a pair *)
(* (exclude_src, exclude_dst) of different lengths fails with an error and *)
(* returns no subgraph.                                                    *)
(***************************************************************************)
C19_MalformedFailsFast == (Malformed(edges) /\ Finished) => (Raised /\ ~result.some)

(***************************************************************************)
(* C20.  Reverse-id resolver: for a CSC structure with n edges,            *)
(* _to_reverse_ids returns two sequences of length n in the order of       *)
(* indices, orig_src[i] = row_map[indices[i]] with a row map and           *)
(* indices[i] without, orig_dst[i] = column_map[j] with a column map and j *)
(* without, j being the column that owns position i.                       *)
(***************************************************************************)
C20_ReverseIds ==
    /\ (sg.kind = "csc" /\ "resolve" \in work) =>
          LET rev == to_reverse_ids(sg.csc, sg.row, sg.col)
          IN  /\ Len(rev[1]) = Len(sg.csc.indices)
              /\ Len(rev[2]) = Len(sg.csc.indices)
              /\ \A i \in 1..Len(sg.csc.indices) :
                    <<rev[1][i], rev[2][i]>> = OrigPair(sg.csc, sg.row, sg.col, i)
    /\ (sg.kind = "dict" /\ "resolve" \in work) =>
          \A k \in DOMAIN sg.csc :
              LET rev == to_reverse_ids(sg.csc[k], RelRow(sg, k), RelCol(sg, k))
              IN  /\ Len(rev[1]) = Len(sg.csc[k].indices)
                  /\ Len(rev[2]) = Len(sg.csc[k].indices)
                  /\ \A i \in 1..Len(sg.csc[k].indices) :
                        <<rev[1][i], rev[2][i]>>
                            = OrigPair(sg.csc[k], RelRow(sg, k), RelCol(sg, k), i)

\* the resolver ran on a structure of two columns with edges in both, read
\* through a row map and a column map
C20_Witness ==
    /\ sg.kind = "csc"
    /\ "resolve" \in work
    /\ sg.row.some /\ sg.col.some
    /\ Len(sg.csc.indptr) = 3
    /\ 0 < sg.csc.indptr[2]
    /\ sg.csc.indptr[2] < sg.csc.indptr[3]
    /\ sg.row.val[Lo(sg.csc.indices[1]) + 1] # sg.csc.indices[1]

\* a retain index over n edges with original pairs `pairs`, against the
\* exclusion set `drop`
IsRetainIndex(retain, pairs, drop) ==
    /\ \A i \in 1..(Len(retain) - 1) : retain[i] < retain[i + 1]
    /\ \A i \in DOMAIN retain : retain[i] \in 0..(Len(pairs) - 1)
    /\ \A p \in 0..(Len(pairs) - 1) : (p \in Range(retain)) = (pairs[p + 1] \notin drop)
    /\ drop = {} => retain = [i \in 1..Len(pairs) |-> i - 1]

(***************************************************************************)
(* C21.  The retain index computed for n sampled edges (ids in [0, 2^32))  *)
(* is strictly ascending, without duplicates, has every entry in [0, n),   *)
(* and holds position i exactly when the original pair of edge i is not in *)
(* the exclusion set; with an empty exclusion set it is 0..n-1.            *)
(***************************************************************************)
C21_RetainIndex ==
    /\ (HomoReturned /\ AllNarrow /\ EqualLengths(edges)) =>
          IsRetainIndex(index.val, OrigPairs(sg.csc, sg.row, sg.col), ExclSet(edges))
    /\ HeteroReturned =>
          \A k \in DOMAIN sg.csc \cap DOMAIN edges.val :
              EqualLengths(edges.val[k]) =>
                  IsRetainIndex(index[k].val,
                                OrigPairs(sg.csc[k], RelRow(sg, k), RelCol(sg, k)),
                                ExclSet(edges.val[k]))

\* ids of the supported range used to compare keys: 0, 1 and 2^31 - 1
KeyIds == {Id(0), Id(1), Id(2147483647)}

(***************************************************************************)
(* C22.  Key packing is an injection on the supported range: in the width  *)
(* of the tensors of the call, the keys (s << 32) | d of two pairs of ids  *)
(* in [0, 2^32) are equal only if the pairs are equal.                     *)
(***************************************************************************)
C22_KeyInjective ==
    \A p \in KeyIds \X KeyIds : \A q \in KeyIds \X KeyIds :
        PackKeys(<<p[1]>>, <<p[2]>>, sg.dtype, build)
            = PackKeys(<<q[1]>>, <<q[2]>>, sg.dtype, build) => p = q

\* the node types of a relation key "S:r:D"
SrcType(k) == EtypeParts[k][1]
DstType(k) == EtypeParts[k][3]

\* the original source of the edge at 1-based position i of relation k: through
\* the row map of the source node type, when the row maps have one
SrcOf(g, k, i) ==
    IF g.row.some /\ SrcType(k) \in DOMAIN g.row.val
    THEN g.row.val[SrcType(k)][Lo(g.csc[k].indices[i]) + 1]
    ELSE g.csc[k].indices[i]

\* the original destination of that edge: through the column map of the
\* destination node type, when the column maps have one
DstOf(g, k, i) ==
    LET c == g.csc[k]
        j == CHOOSE x \in 1..(Len(c.indptr) - 1) : c.indptr[x] < i /\ i <= c.indptr[x + 1]
    IN  IF g.col.some /\ DstType(k) \in DOMAIN g.col.val
        THEN g.col.val[DstType(k)][j]
        ELSE Id(j - 1)

(***************************************************************************)
(* C23.  Per-relation id spaces: for a relation "S:r:D" with an entry in   *)
(* the exclusion mapping, an edge is dropped exactly when the pair of its  *)
(* row id mapped through the row map of S and its column id mapped through *)
(* the column map of D is an exclusion pair of the entry; an axis whose    *)
(* map mapping is absent or has no entry for the node type is taken as it  *)
(* is.                                                                     *)
(***************************************************************************)
C23_RelationIdSpaces ==
    HeteroReturned =>
        \A k \in DOMAIN sg.csc \cap DOMAIN edges.val :
            EqualLengths(edges.val[k]) =>
                {i \in DOMAIN sg.csc[k].indices : (i - 1) \notin Range(index[k].val)}
                    = {i \in DOMAIN sg.csc[k].indices :
                          <<SrcOf(sg, k, i), DstOf(sg, k, i)>> \in ExclSet(edges.val[k])}

\* both relations have an entry; the first has a row map for its source type and
\* a column map for its destination type and loses an edge whose original pair
\* is not its local pair; the second, whose types have no maps, loses its edge
C23_Witness ==
    /\ HeteroReturned
    /\ DOMAIN sg.csc = {R1, R2}
    /\ {R1, R2} \subseteq DOMAIN edges.val
    /\ sg.row.some /\ DOMAIN sg.row.val = {"A"}
    /\ sg.col.some
    /\ \E i \in DOMAIN sg.csc[R1].indices :
          /\ (i - 1) \notin Range(index[R1].val)
          /\ <<SrcOf(sg, R1, i), DstOf(sg, R1, i)>> # <<sg.csc[R1].indices[i], Id(0)>>
    /\ sg.csc[R2].indices # <<>>
    /\ index[R2].val = <<>>

\* the exclusion mapping e without the keys outside K
Restrict(e, K) == [kind |-> "dict", val |-> [k \in DOMAIN e.val \cap K |-> e.val[k]]]

\* the exclusion mapping has a relation key that the subgraph does not have
HasUnknownKey ==
    sg.kind = "dict" /\ edges.kind = "dict" /\ DOMAIN edges.val \ DOMAIN sg.csc # {}

(***************************************************************************)
(* C24.  Unknown relations are ignored: a call whose exclusion mapping has *)
(* a relation key that the heterogeneous subgraph does not have ends as    *)
(* the call without that key ends: it returns the same subgraph, and it    *)
(* raises only the error that an entry of a relation of the subgraph       *)
(* raises; no error comes from the unknown key, whatever pairs it carries. *)
(***************************************************************************)
C24_UnknownIgnored ==
    (flag /\ HasUnknownKey /\ Finished) =>
        LET known == Restrict(edges, DOMAIN sg.csc)
            raises == {RelationIndex(sg, known, k, TRUE, build).raised : k \in DOMAIN sg.csc}
        IN  IF raises = {""}
            THEN Returned /\ Res = SecondCall(sg, known)
            ELSE Raised /\ err \in raises \ {""}

\* a subgraph of relation R1 alone; the entry of the unknown relation R2 is a
\* pair of tensors that do not even broadcast; R1 loses its edge to its own
\* entry
C24_Witness ==
    /\ HeteroReturned
    /\ sg.order = <<R1>>
    /\ {R1, R2} \subseteq DOMAIN edges.val
    /\ edges.val[R2].kind = "pair"
    /\ ~Broadcasts(edges.val[R2].val[1], edges.val[R2].val[2])
    /\ sg.csc[R1].indices # <<>>
    /\ Res.csc[R1].indices = <<>>

\* a single CSC structure: the fields indptr and indices
IsCscStructure(c) == DOMAIN c = {"indptr", "indices"}

(***************************************************************************)
(* C25.  The result has the shape of the input: a homogeneous subgraph     *)
(* gives a single structure, with edge ids exactly when the input has      *)
(* them; a heterogeneous subgraph gives a mapping with exactly the input's *)
(* relation keys, each to a single structure, and an edge-id mapping with  *)
(* exactly the keys of the input's edge-id mapping, absent when the        *)
(* input's is absent.                                                      *)
(***************************************************************************)
C25_ResultShape ==
    /\ HomoReturned =>
          /\ IsCscStructure(Res.csc)
          /\ Res.eid.some = sg.eid.some
          /\ Res.row.some = sg.row.some
          /\ Res.col.some = sg.col.some
    /\ HeteroReturned =>
          /\ DOMAIN Res.csc = DOMAIN sg.csc
          /\ \A k \in DOMAIN Res.csc : IsCscStructure(Res.csc[k])
          /\ Res.eid.some = sg.eid.some
          /\ sg.eid.some => DOMAIN Res.eid.val = DOMAIN sg.eid.val
          /\ Res.row.some = sg.row.some
          /\ Res.col.some = sg.col.some

\* two relations, edge ids for one of them only, an exclusion entry for one of
\* them only, and an edge removed
C25_Witness ==
    /\ HeteroReturned
    /\ DOMAIN sg.csc = {R1, R2}
    /\ sg.eid.some
    /\ DOMAIN sg.eid.val # DOMAIN sg.csc
    /\ DOMAIN edges.val \cap DOMAIN sg.csc = {R1}
    /\ Len(Res.csc[R1].indices) < Len(sg.csc[R1].indices)

\* column c (1 or 2) of a two-column table, top to bottom
Column(table, c) == [i \in DOMAIN table |-> table[i][c]]

\* the same exclusion set in the other form: the pair (column 0, column 1) of a
\* table, the table with the rows (src[i], dst[i]) of a pair
OtherForm(e) ==
    IF e.kind = "table"
    THEN [kind |-> "pair", val |-> <<Column(e.val, 1), Column(e.val, 2)>>]
    ELSE [kind |-> "table", val |-> [i \in DOMAIN e.val[1] |-> <<e.val[1][i], e.val[2][i]>>]]

\* the exclusion mapping with the entries of the keys in K in the other form
OtherFormOn(e, K) ==
    [kind |-> "dict",
     val |-> [k \in DOMAIN e.val |-> IF k \in K THEN OtherForm(e.val[k]) ELSE e.val[k]]]

(***************************************************************************)
(* C26.  The two forms of an exclusion set are equivalent: the retain      *)
(* index of a table is the retain index of the pair (column 0, column 1),  *)
(* so a call returns the same subgraph when the exclusion set, or any of   *)
(* the entries of the exclusion mapping, is given in the other form.       *)
(***************************************************************************)
C26_FormsEquivalent ==
    /\ (HomoReturned /\ EqualLengths(edges)) =>
          LET other == HomoIndex(sg, OtherForm(edges), TRUE, build)
          IN  /\ other = Return(index.val)
              /\ Res = slice_subgraph(sg, Some(other.val))
    /\ HeteroReturned =>
          \A K \in SUBSET {k \in DOMAIN sg.csc \cap DOMAIN edges.val :
                              EqualLengths(edges.val[k])} :
              /\ \A k \in K :
                    RelationIndex(sg, OtherFormOn(edges, K), k, TRUE, build)
                        = Return(index[k])
              /\ Res = SecondCall(sg, OtherFormOn(edges, K))

\* a table of two rows, one of them with different source and destination, that
\* removes an edge and keeps another
C26_Witness ==
    /\ HomoReturned
    /\ edges.kind = "table"
    /\ Len(edges.val) = 2
    /\ \E i \in DOMAIN edges.val : edges.val[i][1] # edges.val[i][2]
    /\ Len(Res.csc.indices) > 0
    /\ Len(Res.csc.indices) < Len(sg.csc.indices)

\* the rows (src, dst) of an exclusion set in either form
Rows(e) ==
    IF e.kind = "table" THEN e.val
    ELSE [i \in DOMAIN e.val[1] |-> <<e.val[1][i], e.val[2][i]>>]

\* the union of two exclusion sets of one shape, as tables
UnionEdges(e1, e2) ==
    IF e1.kind = "dict"
    THEN [kind |-> "dict",
          val |-> [k \in DOMAIN e1.val \cup DOMAIN e2.val |->
                      TableOf((IF k \in DOMAIN e1.val THEN Rows(e1.val[k]) ELSE <<>>)
                              \o (IF k \in DOMAIN e2.val THEN Rows(e2.val[k]) ELSE <<>>))]]
    ELSE TableOf(Rows(e1) \o Rows(e2))

\* the subgraph returned by exclude_edges(g, e), for a call that returns
Exclude(g, e) ==
    LET r == IF g.kind = "dict" THEN SecondCall(g, e)
             ELSE slice_subgraph(g, Some(HomoIndex(g, e, TRUE, build).val))
    IN  [g EXCEPT !.csc = r.csc, !.col = r.col, !.row = r.row, !.eid = r.eid]

\* the returned subgraph of the call of the state, as the input of a next call
ResSubgraph == [sg EXCEPT !.csc = Res.csc, !.col = Res.col, !.row = Res.row, !.eid = Res.eid]

\* second exclusion sets tried after the call of the state: for a single
\* structure every single pair; for a mapping an entry for either relation, the
\* entries of R1 holding every pair between them
SecondEdges ==
    IF sg.kind = "dict"
    THEN {[kind |-> "dict", val |-> R1 :> TableOf(<<<<Id(0), Id(0)>>, <<Id(1), Id(1)>>>>)],
          [kind |-> "dict", val |-> R1 :> TableOf(<<<<Id(1), Id(0)>>, <<Id(0), Id(1)>>>>)],
          [kind |-> "dict", val |-> R2 :> PairOf(<<<<Id(0), Id(0)>>>>)]}
    ELSE {TableOf(<<p>>) : p \in ExcludePairs}

\* every entry of the exclusion set of the call is a set of pairs
AllEqualLengths ==
    IF edges.kind = "dict"
    THEN \A k \in DOMAIN edges.val : EqualLengths(edges.val[k])
    ELSE EqualLengths(edges)

(***************************************************************************)
(* C27.  Sequential exclusion composes as set union: excluding E2 from the *)
(* result of excluding E1 gives the subgraph that excluding the union of   *)
(* E1 and E2 gives, and so does excluding E1 from the result of excluding  *)
(* E2; excluding the same set twice gives what excluding it once gives.    *)
(***************************************************************************)
C27_ComposesAsUnion ==
    (Returned /\ AllEqualLengths) =>
        /\ \A e2 \in SecondEdges :
              LET once == Exclude(sg, UnionEdges(edges, e2))
              IN  /\ Exclude(ResSubgraph, e2) = once
                  /\ Exclude(Exclude(sg, e2), edges) = once
        /\ Exclude(ResSubgraph, edges) = ResSubgraph

\* a call that removed an edge and kept an edge that a second exclusion removes
C27_Witness ==
    /\ HomoReturned
    /\ AllNarrow
    /\ EqualLengths(edges)
    /\ Len(Res.csc.indices) < Len(sg.csc.indices)
    /\ \E e2 \in SecondEdges :
          /\ ExclSet(e2) \cap ExclSet(edges) = {}
          /\ LET r2 == Exclude(ResSubgraph, e2)
             IN  /\ Len(r2.csc.indices) < Len(Res.csc.indices)
                 /\ r2.csc.indices # <<>>

\* the exclusion mapping e with the entry of relation k replaced by x
WithEntry(e, k, x) == [kind |-> "dict", val |-> [e.val EXCEPT ![k] = x]]

(***************************************************************************)
(* C28.  Duplicates are handled as set membership: no edge of the result   *)
(* has the original pair of an exclusion pair, however many sampled edges  *)
(* of a column have that pair; and the result depends only on the set of   *)
(* exclusion pairs, not on their order or on repetitions: it is the result *)
(* of excluding the pairs of the set once each, in any order.              *)
(***************************************************************************)
C28_SetMembership ==
    /\ (HomoReturned /\ EqualLengths(edges)) =>
          /\ ExclSet(edges) \cap Range(OrigPairs(Res.csc, Res.row, Res.col)) = {}
          /\ \A rows \in Orders(ExclSet(edges)) :
                Exclude(sg, TableOf(rows)) = ResSubgraph
    /\ HeteroReturned =>
          \A k \in DOMAIN sg.csc \cap DOMAIN edges.val :
              EqualLengths(edges.val[k]) =>
                  /\ ExclSet(edges.val[k])
                        \cap Range(OrigPairs(Res.csc[k], RelRow(sg, k), RelCol(sg, k))) = {}
                  /\ \A rows \in Orders(ExclSet(edges.val[k])) :
                        RelationIndex(sg, WithEntry(edges, k, TableOf(rows)), k, TRUE, build)
                            = Return(index[k])

\* a column with two edges of one original pair and a third edge; the pair is
\* listed twice; both edges are removed and the third is kept
C28_Witness ==
    /\ HomoReturned
    /\ Len(sg.csc.indptr) = 2
    /\ Len(sg.csc.indices) = 3
    /\ Cardinality(Range(OrigPairs(sg.csc, sg.row, sg.col))) = 2
    /\ Len(Rows(edges)) = 2
    /\ Cardinality(ExclSet(edges)) = 1
    /\ Len(Res.csc.indices) = 1

(***************************************************************************)
(* C29.  Validation and dispatch classify homogeneity the same way: a call *)
(* that passed the two assertions with a subgraph accepted as homogeneous  *)
(* (a CSC structure or a plain tuple) goes through the homogeneous path,   *)
(* which resolves the original ids and returns or raises; one accepted as  *)
(* heterogeneous enters the loop over the relations.                       *)
(***************************************************************************)
C29_SameClassification ==
    [][pc = "dispatch" =>
          IF IsHomoSubgraph(sg)
          THEN "resolve" \in work' /\ pc' \in {"returned", "raised"}
          ELSE pc' = "loop"]_vars

====
